---- MODULE Spec2Model ----
(***************************************************************************)
(* Model of src/app.py, a Streamlit quiz platform.  Every user interaction *)
(* re-executes the script top to bottom; one action below is one such     *)
(* script run (teacher mode or student mode), with the widget values of   *)
(* that run as its inputs.  The filesystem (latest_quiz.json, the         *)
(* results_*.json units, marks_sheet.xlsx) and the wall clock are the     *)
(* only state that survives a run.                                         *)
(*                                                                         *)
(* Strings whose characters matter (names, option labels) are sequences   *)
(* of one-character strings.  A generated text is a sequence of tokens:   *)
(* whitespace, fence markers, prose, or the id of a JSON document.        *)
(***************************************************************************)
EXTENDS Integers, Sequences, FiniteSets, TLC

VARIABLES now, quizFile, resultFiles, marksSheet, run, lastSave

vars == <<now, quizFile, resultFiles, marksSheet, run, lastSave>>

----------------------------------------------------------------------------
(* Bounds *)

MaxSec == 1
MaxFiles == 2
MaxFailed == 2

----------------------------------------------------------------------------
(* datetime values: second and microsecond fields, ordered lexicographically;
   the clock is sampled every half second *)

DateTimes == [sec : 0..MaxSec, usec : {0, 500000}]

DtLess(a, b) == a.sec < b.sec \/ (a.sec = b.sec /\ a.usec < b.usec)

DtGreater(a, b) == DtLess(b, a)

(* str(datetime) with the microsecond part never printed *)
DtStrNoFraction(d) == <<d.sec>>

(* str(datetime): the microsecond part is printed only when it is non-zero *)
DtStr(d) == IF d.usec = 0 THEN <<d.sec>> ELSE <<d.sec, d.usec>>

(* datetime.fromisoformat: a missing fraction reads as microsecond 0 *)
fromisoformat(s) ==
  IF Len(s) = 1 THEN [sec |-> s[1], usec |-> 0]
                ELSE [sec |-> s[1], usec |-> s[2]]

(* strftime('%Y-%m-%d_%H-%M-%S'): second resolution *)
strftime(d) == <<d.sec>>

----------------------------------------------------------------------------
(* Python outcomes of a call: a returned value, a returned None, a raise *)

Ret(v) == [kind |-> "ret", val |-> v]

None == [kind |-> "none"]

Raise == [kind |-> "raise"]

(* safe_run: any exception becomes None *)
safe_run(outcome) == IF outcome.kind = "raise" THEN None ELSE outcome

----------------------------------------------------------------------------
(* Texts returned by the generation service *)

WS == "ws"
FenceJson == "fence_json"
Fence == "fence"
Prose == "prose"

Q1 == [question |-> "q1", options |-> << <<"A", "x">>, <<"B", "y">> >>,
       correct |-> <<"A">>, explanation |-> "e1"]

Q2 == [question |-> "q2", options |-> << <<>>, <<"B", "A">>, <<"a", "z">> >>,
       correct |-> <<"B">>, explanation |-> "e2"]

Q2NoExplanation == [question |-> "q2", options |-> << <<"A", "u">>, <<"B", "v">> >>,
                    correct |-> <<"B">>]

(* The JSON documents a text can encode, by id *)
Docs ==
  ("dGood"    :> [questions |-> <<Q1, Q2>>]) @@
  ("dEmpty"   :> [questions |-> <<>>]) @@
  ("dNoKey"   :> [foo |-> <<>>]) @@
  ("dMissing" :> [questions |-> <<Q1, Q2NoExplanation>>])

(* response.text of the generation call, or its failure *)
GenResponses ==
  { Raise,
    Ret(<<>>),
    Ret(<<WS>>),
    Ret(<<Prose>>),
    Ret(<<WS, "dGood", WS>>),
    Ret(<<FenceJson, WS, "dGood", WS, Fence>>),
    Ret(<<"dEmpty">>),
    Ret(<<"dNoKey">>),
    Ret(<<Fence, "dMissing", Fence>>) }

RECURSIVE lstrip(_)
lstrip(s) == IF s # <<>> /\ Head(s) = WS THEN lstrip(Tail(s)) ELSE s

RECURSIVE rstrip(_)
rstrip(s) ==
  IF s # <<>> /\ s[Len(s)] = WS THEN rstrip(SubSeq(s, 1, Len(s) - 1)) ELSE s

strip(s) == rstrip(lstrip(s))

IsFenceToken(t) == t \in {FenceJson, Fence}

NotFenceToken(t) == ~IsFenceToken(t)

(* generate_quiz after the service call: strip, drop fence markers, strip *)
generate_quiz(response) ==
  IF response.kind = "raise" THEN Raise
  ELSE LET text == strip(response.val)
       IN IF text # <<>> /\ IsFenceToken(Head(text))
          THEN Ret(strip(SelectSeq(text, NotFenceToken)))
          ELSE Ret(text)

(* json.loads: surrounding whitespace is allowed, anything else must be
   exactly one document *)
json_loads(text) ==
  LET body == strip(text)
  IN IF Len(body) = 1 /\ body[1] \in DOMAIN Docs THEN Ret(Docs[body[1]]) ELSE Raise

QuestionKeys == {"question", "options", "correct", "explanation"}

RECURSIVE parse_loop(_, _, _)
parse_loop(items, i, parsed) ==
  IF i > Len(items) THEN Ret(parsed)
  ELSE IF ~(QuestionKeys \subseteq DOMAIN items[i]) THEN Raise
  ELSE parse_loop(items, i + 1,
         Append(parsed, [k \in QuestionKeys |-> items[i][k]]))

parse_quiz(quiz_text) ==
  LET data == json_loads(quiz_text)
  IN IF data.kind = "raise" THEN None
     ELSE IF "questions" \notin DOMAIN data.val THEN Raise
     ELSE parse_loop(data.val["questions"], 1, <<>>)

(* Python truthiness of a returned str or list: None, "" and [] are falsy *)
Falsy(outcome) == outcome.kind = "none" \/ (outcome.kind = "ret" /\ outcome.val = <<>>)

(* Python truthiness of a returned True-or-None *)
FalsyFlag(outcome) == outcome.kind = "none"

----------------------------------------------------------------------------
(* Quiz store: the single file latest_quiz.json *)

IOOutcomes == {"ok", "open_fail", "write_fail"}

AbsentFile == [kind |-> "absent"]

CorruptFile == [kind |-> "corrupt"]

DataFile(content) == [kind |-> "data", content |-> content]

save_quiz_file(file, quiz_text, start_time, end_time, io) ==
  IF io = "ok"
  THEN [ret |-> Ret(TRUE),
        file |-> DataFile([quiz_text |-> quiz_text,
                           start_time |-> start_time,
                           end_time |-> end_time])]
  ELSE IF io = "open_fail" THEN [ret |-> None, file |-> file]
  ELSE [ret |-> None, file |-> CorruptFile]

load_quiz_file(file) == IF file.kind = "data" THEN Ret(file.content) ELSE None

----------------------------------------------------------------------------
(* Student name normalisation: .strip().replace(" ", "_") or "Unknown" *)

Unknown == <<"U", "n", "k", "n", "o", "w", "n">>

RawNames == { <<" ">>, <<"a", " ", "b">>, <<" ", "a", "_", "b">> }

RECURSIVE strip_left(_)
strip_left(s) == IF s # <<>> /\ Head(s) = " " THEN strip_left(Tail(s)) ELSE s

RECURSIVE strip_right(_)
strip_right(s) ==
  IF s # <<>> /\ s[Len(s)] = " " THEN strip_right(SubSeq(s, 1, Len(s) - 1)) ELSE s

replace_space(s) == [i \in 1..Len(s) |-> IF s[i] = " " THEN "_" ELSE s[i]]

student_name_of(raw) ==
  LET n == replace_space(strip_right(strip_left(raw)))
  IN IF n = <<>> THEN Unknown ELSE n

----------------------------------------------------------------------------
(* Result store: one unit per file name results_<name>_<timestamp>.json *)

(* student_answer is the radio's value as returned: Ret(option string) *)
result_answers(parsed_questions, user_answers) ==
  [i \in 1..Len(parsed_questions) |->
     [question |-> parsed_questions[i].question,
      student_answer |-> user_answers[i],
      correct_answer |-> parsed_questions[i].correct,
      explanation |-> parsed_questions[i].explanation]]

result_filename(student_name, d) == <<student_name, strftime(d)>>

save_student_results(files, d, student_name, score, parsed_questions, user_answers, io) ==
  LET filename == result_filename(student_name, d)
      record == [student_name |-> student_name,
                 score |-> score,
                 answers |-> result_answers(parsed_questions, user_answers)]
  IN IF io = "ok"
     THEN [ret |-> Ret(filename),
           files |-> [f \in DOMAIN files \cup {filename} |->
                        IF f = filename THEN DataFile(record) ELSE files[f]]]
     ELSE IF io = "open_fail" THEN [ret |-> None, files |-> files]
     ELSE [ret |-> None,
           files |-> [f \in DOMAIN files \cup {filename} |->
                        IF f = filename THEN CorruptFile ELSE files[f]]]

(* The orders in which glob may enumerate the units *)
GlobOrders(files) ==
  { o \in [1..Cardinality(DOMAIN files) -> DOMAIN files] :
      \A i, j \in DOMAIN o : i # j => o[i] # o[j] }

(* load_all_results: one try around the whole loop *)
load_all_results(files, order) ==
  IF \E i \in DOMAIN order : files[order[i]].kind # "data" THEN <<>>
  ELSE [i \in DOMAIN order |-> files[order[i]].content]

(* export_excel: the (Student, Score) projection written to marks_sheet.xlsx *)
export_excel(results) ==
  [i \in 1..Len(results) |->
     [Student |-> results[i].student_name, Score |-> results[i].score]]

---------------------------------------------------------------------------------------------------------------------------------------------------
(* Student mode *)

(* the timing control with the end of the window excluded *)
TimingControlEndExclusive(t, start_time, end_time) ==
  IF DtLess(t, start_time) THEN "BeforeWindow"
  ELSE IF ~DtLess(t, end_time) THEN "Expired"
  ELSE "Open"

(* the timing control without the expiry check *)
TimingControlNoExpiry(t, start_time, end_time) ==
  IF DtLess(t, start_time) THEN "BeforeWindow" ELSE "Open"

(* Timing control, lines 308-314 *)
TimingControl(t, start_time, end_time) ==
  IF DtLess(t, start_time) THEN "BeforeWindow"
  ELSE IF DtGreater(t, end_time) THEN "Expired"
  ELSE "Open"

(* the radio widgets: selection 0 is no choice (None) *)
Selections(parsed_questions) ==
  { s \in [1..Len(parsed_questions) -> 0..3] :
      \A i \in DOMAIN s : s[i] <= Len(parsed_questions[i].options) }

(* line 328: None in user_answers *)
HasNone(sel) == \E i \in DOMAIN sel : sel[i] = 0

(* lines 322-325: each radio returns the chosen option string, or None *)
user_answers_of(parsed_questions, sel) ==
  [i \in 1..Len(parsed_questions) |->
     IF sel[i] = 0 THEN None ELSE Ret(parsed_questions[i].options[sel[i]])]

(* the scoring loop with the first character dropped from the comparison *)
RECURSIVE score_loop_whole(_, _, _, _)
score_loop_whole(parsed_questions, user_answers, i, score) ==
  IF i > Len(parsed_questions) THEN Ret(score)
  ELSE IF user_answers[i].kind = "none" THEN Raise
  ELSE IF user_answers[i].val = <<>> THEN Raise
  ELSE score_loop_whole(parsed_questions, user_answers, i + 1,
         IF user_answers[i].val = parsed_questions[i].correct
         THEN score + 1 ELSE score)

(* the scoring loop, lines 332-339: user_answers[i][0] raises on None
   (TypeError) and on "" (IndexError), and an exception ends the run *)
RECURSIVE score_loop(_, _, _, _)
score_loop(parsed_questions, user_answers, i, score) ==
  IF i > Len(parsed_questions) THEN Ret(score)
  ELSE IF user_answers[i].kind = "none" THEN Raise
  ELSE IF user_answers[i].val = <<>> THEN Raise
  ELSE score_loop(parsed_questions, user_answers, i + 1,
         IF <<user_answers[i].val[1]>> = parsed_questions[i].correct
         THEN score + 1 ELSE score)

(* no score was computed *)
NoScore == None

(* what a student run put on the page and did *)
StudentLog(gate, parse, rendered, click, sel, score, saveCalled, saved) ==
  [mode |-> "Student", gate |-> gate, parse |-> parse, rendered |-> rendered,
   click |-> click, sel |-> sel, score |-> score,
   saveCalled |-> saveCalled, saved |-> saved]

(* a run that stops before the questions are rendered *)
StudentStops(gate, parse) ==
  /\ run' = StudentLog(gate, parse, FALSE, "none", <<>>, NoScore, FALSE, FALSE)
  /\ UNCHANGED resultFiles

(* the Submit Answers handler without the None check and with a scoring
   loop that counts an unanswered question as wrong *)
SubmitAnswersUnchecked(student_name, parsed_questions, sel, ios) ==
  LET user_answers == user_answers_of(parsed_questions, sel)
      score == Cardinality({ i \in DOMAIN user_answers :
                   /\ user_answers[i].kind = "ret"
                   /\ user_answers[i].val # <<>>
                   /\ <<user_answers[i].val[1]>> = parsed_questions[i].correct })
  IN \E io \in ios :
       LET res == save_student_results(resultFiles, now, student_name,
                    score, parsed_questions, user_answers, io)
       IN /\ Cardinality(DOMAIN res.files) <= MaxFiles
          /\ resultFiles' = res.files
          /\ run' = StudentLog("Open", "ok", TRUE, "submit", sel,
                               Ret(score), TRUE, res.ret.kind = "ret")

(* lines 327-345: the Submit Answers handler *)
SubmitAnswers(student_name, parsed_questions, sel, ios) ==
  IF HasNone(sel)
  THEN /\ run' = StudentLog("Open", "ok", TRUE, "submit", sel, NoScore, FALSE, FALSE)
       /\ UNCHANGED resultFiles
  ELSE LET user_answers == user_answers_of(parsed_questions, sel)
           scored == score_loop(parsed_questions, user_answers, 1, 0)
       IN IF scored.kind = "raise"
          THEN /\ run' = StudentLog("Open", "ok", TRUE, "submit", sel,
                                    NoScore, FALSE, FALSE)
               /\ UNCHANGED resultFiles
          ELSE \E io \in ios :
                 LET res == save_student_results(resultFiles, now, student_name,
                              scored.val, parsed_questions, user_answers, io)
                 IN /\ Cardinality(DOMAIN res.files) <= MaxFiles
                    /\ resultFiles' = res.files
                    /\ run' = StudentLog("Open", "ok", TRUE, "submit", sel,
                                         scored, TRUE, res.ret.kind = "ret")

(* lines 291-345: one run of the script in student mode *)
StudentRun(c) ==
  /\ UNCHANGED <<now, quizFile, marksSheet, lastSave>>
  /\ LET quiz_data == load_quiz_file(quizFile)
     IN IF Falsy(quiz_data)
        THEN StudentStops("Absent", "n/a")
        ELSE LET quiz_text == quiz_data.val.quiz_text
                 start_time == fromisoformat(quiz_data.val.start_time)
                 end_time == fromisoformat(quiz_data.val.end_time)
                 gate == TimingControl(now, start_time, end_time)
             IN IF gate # "Open"
                THEN StudentStops(gate, "n/a")
                ELSE LET parsed == parse_quiz(quiz_text)
                     IN IF parsed.kind = "raise"
                        THEN StudentStops(gate, "raise")
                        ELSE IF Falsy(parsed)
                        THEN StudentStops(gate,
                               IF parsed.kind = "none" THEN "none" ELSE "empty")
                        ELSE \/ /\ run' = StudentLog(gate, "ok", TRUE, "none", <<>>,
                                                     NoScore, FALSE, FALSE)
                                /\ UNCHANGED resultFiles
                             \/ \E raw \in c.names,
                                   sel \in Selections(parsed.val) \cap c.sels :
                                  SubmitAnswers(student_name_of(raw), parsed.val,
                                                sel, c.sio)

----------------------------------------------------------------------------
(* Teacher mode *)

Secret == "admin123"

Passwords == {"admin123", "admin", ""}

Topics == { <<" ">>, <<"S", "Q", "L">> }

(* the login gate letting an empty password through *)
PasswordOKOrEmpty(password) == password = Secret \/ password = ""

(* line 190: the login gate *)
PasswordOK(password) == password = Secret

(* what a teacher run put on the page and did; failures counts the
   rejected logins immediately before this run *)
TeacherLog(password, unlocked, click, stage, listed, exported, failures) ==
  [mode |-> "Teacher", password |-> password, unlocked |-> unlocked,
   click |-> click, stage |-> stage, listed |-> listed, exported |-> exported,
   failures |-> failures]

Failures == IF run.mode = "Teacher" THEN run.failures ELSE 0

(* lines 186-192: a run with a wrong password stops at the login *)
TeacherLocked ==
  \E password \in Passwords :
    /\ ~PasswordOK(password)
    /\ Failures < MaxFailed
    /\ run' = TeacherLog(password, FALSE, "none", "locked", FALSE, FALSE, Failures + 1)
    /\ UNCHANGED <<now, quizFile, resultFiles, marksSheet, lastSave>>

(* lines 268-285: the results table and the export button.  The table is
   shown in the order glob returned; nothing the run keeps depends on it
   unless the marks sheet is exported.  An export click without an export
   is a failed export_excel or an empty listing. *)
ViewResults(password, click, stage) ==
  \/ /\ UNCHANGED marksSheet
     /\ run' = TeacherLog(password, TRUE, click, stage, TRUE, FALSE, Failures)
  \/ /\ click = "export"
     /\ \E order \in GlobOrders(resultFiles) :
          LET results == load_all_results(resultFiles, order)
          IN /\ results # <<>>
             /\ marksSheet' = DataFile(export_excel(results))
     /\ run' = TeacherLog(password, TRUE, click, stage, TRUE, TRUE, Failures)

(* a Generate Quiz run that ends in st.stop() *)
GenerateStops(password, stage) ==
  /\ run' = TeacherLog(password, TRUE, "generate", stage, FALSE, FALSE, Failures)
  /\ UNCHANGED marksSheet

(* the arguments of the latest successful save_quiz_file call, and whether
   it replaced an earlier file *)
SaveCall(quiz_text, start_time, end_time) ==
  [kind |-> "ok", quiz_text |-> quiz_text,
   start_time |-> start_time, end_time |-> end_time,
   overwrote |-> quizFile.kind # "absent"]

(* lines 236-265: the Generate Quiz handler *)
GenerateQuiz(password, c) ==
  \E topic \in Topics :
    IF strip_right(strip_left(topic)) = <<>>
    THEN GenerateStops(password, "topic_required") /\ UNCHANGED <<quizFile, lastSave>>
    ELSE \E response \in c.responses :
      LET quiz_text == safe_run(generate_quiz(response))
      IN IF Falsy(quiz_text)
         THEN GenerateStops(password, "generation_failed")
              /\ UNCHANGED <<quizFile, lastSave>>
         ELSE \E start_time \in c.starts, end_time \in c.ends, io \in c.tio :
           LET saved == save_quiz_file(quizFile, quiz_text.val,
                                       DtStr(start_time), DtStr(end_time), io)
               parsed == safe_run(parse_quiz(quiz_text.val))
           IN /\ quizFile' = saved.file
              /\ lastSave' = IF io = "ok"
                             THEN SaveCall(quiz_text.val, start_time, end_time)
                             ELSE [kind |-> "failed"]
              /\ IF FalsyFlag(safe_run(saved.ret))
                 THEN GenerateStops(password, "save_failed")
                 ELSE IF Falsy(parsed)
                 THEN GenerateStops(password, "parse_failed")
                 ELSE ViewResults(password, "generate", "generated")

(* lines 186-285: one run of the script in teacher mode, logged in *)
TeacherRun(c) ==
  \E password \in Passwords :
    /\ PasswordOK(password)
    /\ UNCHANGED <<now, resultFiles>>
    /\ \/ GenerateQuiz(password, c)
       \/ \E click \in c.clicks :
            /\ ViewResults(password, click, "none")
            /\ UNCHANGED <<quizFile, lastSave>>

----------------------------------------------------------------------------
(* The wall clock *)

DtNext(d) ==
  IF d.usec = 0 THEN [sec |-> d.sec, usec |-> 500000]
                ELSE [sec |-> d.sec + 1, usec |-> 0]

Tick ==
  /\ DtNext(now) \in DateTimes
  /\ now' = DtNext(now)
  /\ UNCHANGED <<quizFile, resultFiles, marksSheet, run, lastSave>>

----------------------------------------------------------------------------

Init ==
  /\ now = [sec |-> 0, usec |-> 0]
  /\ quizFile = AbsentFile
  /\ resultFiles = <<>>
  /\ marksSheet = AbsentFile
  /\ run = [mode |-> "Init"]
  /\ lastSave = [kind |-> "none"]

(* The inputs a run can receive.  Spec lets every run take every input; the
   specifications after it run the same actions on a part of the inputs. *)
Inputs(responses, starts, ends, tio, clicks, names, sels, sio) ==
  [responses |-> responses, starts |-> starts, ends |-> ends, tio |-> tio,
   clicks |-> clicks, names |-> names, sels |-> sels, sio |-> sio]

AllSelections == [1..2 -> 0..3]

AllInputs ==
  Inputs(GenResponses, DateTimes, DateTimes, IOOutcomes, {"none", "export"},
         RawNames, AllSelections, IOOutcomes)

TeacherRunAll == TeacherRun(AllInputs)

StudentRunAll == StudentRun(AllInputs)

Next == TeacherLocked \/ TeacherRunAll \/ StudentRunAll \/ Tick

Spec == Init /\ [][Next]_vars

DtMin == [sec |-> 0, usec |-> 0]

DtMax == [sec |-> MaxSec, usec |-> 500000]

GoodResponse == Ret(<<WS, "dGood", WS>>)

ProseResponse == Ret(<<Prose>>)

(* Access gate: every window against every clock reading; students submit
   one fully answered sheet *)
GateInputs ==
  Inputs({GoodResponse, ProseResponse}, DateTimes, DateTimes, {"ok"}, {"none"},
         {<<" ">>}, {<<1, 2>>}, {"ok"})

TeacherRunGate == TeacherRun(GateInputs)

StudentRunGate == StudentRun(GateInputs)

NextGate == TeacherLocked \/ TeacherRunGate \/ StudentRunGate \/ Tick

SpecGate == Init /\ [][NextGate]_vars

(* Quiz store: every window and I/O outcome of save_quiz_file; students
   view the quiz without submitting *)
QuizInputs ==
  Inputs({GoodResponse, ProseResponse}, DateTimes, DateTimes, IOOutcomes, {"none"},
         {<<" ">>}, {}, {"ok"})

TeacherRunQuiz == TeacherRun(QuizInputs)

StudentRunQuiz == StudentRun(QuizInputs)

NextQuiz == TeacherLocked \/ TeacherRunQuiz \/ StudentRunQuiz \/ Tick

SpecQuiz == Init /\ [][NextQuiz]_vars

(* Generation: every response of the service, one window that stays open *)
GenInputs ==
  Inputs(GenResponses, {DtMin}, {DtMax}, IOOutcomes, {"none"},
         {<<" ">>}, {<<1, 2>>}, {"ok"})

TeacherRunGen == TeacherRun(GenInputs)

StudentRunGen == StudentRun(GenInputs)

NextGen == TeacherLocked \/ TeacherRunGen \/ StudentRunGen \/ Tick

SpecGen == Init /\ [][NextGen]_vars

(* Submission: every selection of answers against the good quiz *)
SubmitInputs ==
  Inputs({GoodResponse}, {DtMin}, {DtMax}, {"ok"}, {"none"},
         {<<" ">>}, AllSelections, {"ok", "open_fail"})

TeacherRunSubmit == TeacherRun(SubmitInputs)

StudentRunSubmit == StudentRun(SubmitInputs)

NextSubmit == TeacherLocked \/ TeacherRunSubmit \/ StudentRunSubmit \/ Tick

SpecSubmit == Init /\ [][NextSubmit]_vars

(* Result store: every student name and I/O outcome of save_student_results *)
StoreInputs ==
  Inputs({GoodResponse}, {DtMin}, {DtMax}, {"ok"}, {"none"},
         RawNames, {<<1, 2>>, <<2, 3>>}, IOOutcomes)

TeacherRunStore == TeacherRun(StoreInputs)

StudentRunStore == StudentRun(StoreInputs)

NextStore == TeacherLocked \/ TeacherRunStore \/ StudentRunStore \/ Tick

SpecStore == Init /\ [][NextStore]_vars

(* Teacher dashboard: every password and button *)
TeacherInputs ==
  Inputs({GoodResponse, ProseResponse}, {DtMin}, {DtMax}, {"ok"}, {"none", "export"},
         {<<" ">>}, {<<1, 2>>}, {"ok"})

TeacherRunTeacher == TeacherRun(TeacherInputs)

StudentRunTeacher == StudentRun(TeacherInputs)

NextTeacher == TeacherLocked \/ TeacherRunTeacher \/ StudentRunTeacher \/ Tick

SpecTeacher == Init /\ [][NextTeacher]_vars

----------------------------------------------------------------------------
(* Properties *)

Micros(d) == d.sec * 1000000 + d.usec

SeqRange(s) == { s[i] : i \in DOMAIN s }

(* a step that is a student run *)
StudentStep == run'.mode = "Student" /\ (run' # run \/ resultFiles' # resultFiles)

(* a step that is a teacher run *)
TeacherStep == run'.mode = "Teacher" /\ (run' # run \/ quizFile' # quizFile)

StoredStart == fromisoformat(quizFile.content.start_time)

StoredEnd == fromisoformat(quizFile.content.end_time)

WindowOpenNow ==
  /\ quizFile.kind = "data"
  /\ Micros(StoredStart) <= Micros(now)
  /\ Micros(now) <= Micros(StoredEnd)

(* C1: for a stored window with start <= end, a student run classifies its
   clock reading as BeforeWindow when now < start, Open when
   start <= now <= end (both boundaries included) and Expired when now > end;
   the run goes on past the timing control to the questions if and only if
   the state is Open, and it renders questions only when Open (it renders
   them whenever the state is Open and the stored text parses to a
   non-empty list). *)
C1_AccessGate ==
  [][ (StudentStep /\ quizFile.kind = "data"
         /\ Micros(StoredStart) <= Micros(StoredEnd))
      => /\ (Micros(now) < Micros(StoredStart) <=> run'.gate = "BeforeWindow")
         /\ (WindowOpenNow <=> run'.gate = "Open")
         /\ (Micros(now) > Micros(StoredEnd) <=> run'.gate = "Expired")
         /\ (run'.gate = "Open" <=> run'.parse # "n/a")
         /\ (run'.rendered => run'.gate = "Open")
         /\ (run'.gate = "Open" /\ run'.parse = "ok" => run'.rendered) ]_vars

(* a run at the instant that is both the start and the end of the window,
   with a microsecond part, found the gate Open and rendered the questions *)
C1_Witness ==
  /\ run.mode = "Student" /\ run.gate = "Open" /\ run.rendered
  /\ quizFile.kind = "data"
  /\ StoredStart = now /\ StoredEnd = now /\ now.usec # 0

(* C2: the result store changes only in a student run that rendered the
   questions and whose own clock reading lies in the window of the quiz
   record it loaded; a student run outside the window (or with no quiz)
   renders nothing, does not call save_student_results and leaves the
   result store as it was. *)
C2_ResultOnlyInWindow ==
  [][ /\ (resultFiles' # resultFiles
            => run'.mode = "Student" /\ run'.rendered /\ WindowOpenNow)
      /\ (StudentStep /\ ~WindowOpenNow
            => ~run'.rendered /\ ~run'.saveCalled /\ resultFiles' = resultFiles) ]_vars

(* a result was stored during the window, and a later run found the quiz
   expired *)
C2_Witness ==
  /\ run.mode = "Student" /\ run.gate = "Expired" /\ ~run.rendered
  /\ \E f \in DOMAIN resultFiles : resultFiles[f].kind = "data"

(* C3: a submit with at least one unanswered question computes no score,
   does not call save_student_results and leaves the result store as it
   was. *)
C3_UnansweredRejected ==
  [][ (StudentStep /\ run'.click = "submit"
         /\ \E i \in DOMAIN run'.sel : run'.sel[i] = 0)
      => /\ resultFiles' = resultFiles
         /\ run'.score = None
         /\ ~run'.saveCalled
         /\ ~run'.saved ]_vars

(* a submit with one question answered and one not *)
C3_Witness ==
  /\ run.mode = "Student" /\ run.click = "submit"
  /\ \E i \in DOMAIN run.sel : run.sel[i] = 0
  /\ \E i \in DOMAIN run.sel : run.sel[i] # 0

MatchCount(answers) ==
  Cardinality({ i \in DOMAIN answers :
                  <<answers[i].student_answer.val[1]>> = answers[i].correct_answer })

(* C4: every stored result carries a score equal to the number of
   positions at which the first character of the student's answer is the
   question's correct letter, so between 0 and the number of questions;
   and the score a submit computes is that count for the selected options
   against the stored quiz. *)
C4_ScoreIsMatchCount ==
  /\ \A f \in DOMAIN resultFiles :
       resultFiles[f].kind = "data"
         => LET r == resultFiles[f].content
            IN /\ r.score = MatchCount(r.answers)
               /\ r.score \in 0..Len(r.answers)
  /\ (run.mode = "Student" /\ run.score # None)
       => LET questions == parse_quiz(quizFile.content.quiz_text).val
          IN /\ run.score.val =
                  Cardinality({ i \in DOMAIN questions :
                    <<questions[i].options[run.sel[i]][1]>> = questions[i].correct })
             /\ run.score.val \in 0..Len(questions)

(* a stored result with one right and one wrong answer *)
C4_Witness ==
  /\ run.mode = "Student" /\ run.saved /\ run.score = Ret(1)
  /\ \E f \in DOMAIN resultFiles :
       resultFiles[f].kind = "data" /\ resultFiles[f].content.score = 1

AllDecodable(files) == \A f \in DOMAIN files : files[f].kind = "data"

(* C5: every successful append adds one record to what load_all_results
   returns and keeps every record it returned before, also for two
   submissions under the same normalized name in the same second. *)
C5_AppendOnly ==
  [][ (StudentStep /\ run'.saved /\ AllDecodable(resultFiles))
      => \A before \in GlobOrders(resultFiles), after \in GlobOrders(resultFiles') :
           LET old == load_all_results(resultFiles, before)
               new == load_all_results(resultFiles', after)
           IN /\ Len(new) = Len(old) + 1
              /\ SeqRange(old) \subseteq SeqRange(new) ]_vars

(* C6: load_quiz_file returns absent before the first save, and after a
   successful save_quiz_file exactly the three fields of that call, the
   timestamps equal to the originals once parsed again. *)
C6_LastWriterWins ==
  /\ lastSave.kind = "none" => load_quiz_file(quizFile) = None
  /\ lastSave.kind = "ok"
       => LET r == load_quiz_file(quizFile)
          IN /\ r.kind = "ret"
             /\ DOMAIN r.val = {"quiz_text", "start_time", "end_time"}
             /\ r.val.quiz_text = lastSave.quiz_text
             /\ fromisoformat(r.val.start_time) = lastSave.start_time
             /\ fromisoformat(r.val.end_time) = lastSave.end_time

(* a save with fractional timestamps replaced an earlier record *)
C6_Witness ==
  /\ lastSave.kind = "ok" /\ lastSave.overwrote
  /\ lastSave.start_time.usec # 0 /\ lastSave.end_time.usec # 0
  /\ lastSave.start_time # lastSave.end_time

(* C7: parse_quiz reports every malformed text as a value: no exception
   reaches the student flow, whatever text is stored. *)
C7_ParseErrorIsValue ==
  /\ quizFile.kind = "data" => parse_quiz(quizFile.content.quiz_text).kind # "raise"
  /\ run.mode = "Student" => run.parse # "raise"

(* C8: load_all_results returns every decodable record, whatever else the
   store holds. *)
C8_SkipsUndecodable ==
  \A order \in GlobOrders(resultFiles) :
    \A f \in DOMAIN resultFiles :
      resultFiles[f].kind = "data"
        => resultFiles[f].content \in SeqRange(load_all_results(resultFiles, order))

(* C9: a teacher run is unlocked exactly when its password is the shared
   secret; generation, overwriting the quiz, listing and export happen
   only in such a run; a run with another password changes neither store;
   and a run with the right password stays possible after any number of
   rejected ones. *)
C9_LoginGate ==
  /\ [](run.mode = "Teacher"
          => /\ run.unlocked <=> run.password = "admin123"
             /\ (run.listed \/ run.exported \/ run.click # "none"
                   \/ run.stage # "locked") => run.password = "admin123")
  /\ [](ENABLED TeacherRun(AllInputs))
  /\ [][ /\ (quizFile' # quizFile \/ marksSheet' # marksSheet)
              => run'.mode = "Teacher" /\ run'.password = "admin123"
         /\ (TeacherStep /\ run'.password # "admin123")
              => UNCHANGED <<quizFile, resultFiles, marksSheet, lastSave>> ]_vars

(* an unlocked run with results listed and exported, straight after the
   largest number of rejected logins *)
C9_Witness ==
  /\ run.mode = "Teacher" /\ run.unlocked /\ run.failures = MaxFailed
  /\ run.listed /\ run.exported

(* C10: a Generate Quiz run that ends in failure (empty topic, failed or
   empty generation, text that does not parse) leaves what load_quiz_file
   returns as it was. *)
C10_FailedGenerateKeepsQuiz ==
  [][ (TeacherStep /\ run'.click = "generate"
         /\ run'.stage \in {"topic_required", "generation_failed", "parse_failed"})
      => load_quiz_file(quizFile') = load_quiz_file(quizFile) ]_vars

====
